---- MODULE Spec2Model ----
\* Model of hubitatmaker.hub.Hub: the device cache, the listener registry,
\* webhook event processing and the start/stop lifecycle.
EXTENDS Integers, Sequences, FiniteSets, TLC

\* ------------------------------------------------------------------ bounds

MaxListeners == 2   \* longest listener list kept for one device id
MaxStarts == 2      \* webhook servers one Hub instance creates

DevIds == {"d1", "d2"}
EventNames == {"switch", "level"}
Values == {"on", "off"}
\* what a listener callback does when it is called
ListenerKinds == {"plain", "stop", "raise"}
\* full device documents the hub can return for devices/{id}
Snapshots == { <<[name |-> "switch", currentValue |-> v]>> : v \in Values }
\* device lists the hub can return for devices
DeviceLists == { <<>>, <<"d1">>, <<"d1", "d2">>, <<"d2", "d1">>, <<"d1", "d1">> }
\* responses of the Maker API: a transport failure, or a status and the
\* truthiness of the body's "error" field
Responses ==
  { [transport |-> TRUE, status |-> 0, error |-> FALSE],
    [transport |-> FALSE, status |-> 200, error |-> FALSE],
    [transport |-> FALSE, status |-> 200, error |-> TRUE],
    [transport |-> FALSE, status |-> 401, error |-> FALSE],
    [transport |-> FALSE, status |-> 500, error |-> FALSE] }
\* outcomes of the admin page fetch
InfoOutcomes == {"http_error", "parsed", "parse_error", "transport", "timeout"}

\* responses drawn when the classification of _api_request is looked at
ApiStatuses == {200, 399, 400, 401, 404, 500}
ApiResponses ==
  { [transport |-> TRUE, status |-> 0, error |-> FALSE] }
    \cup [transport : {FALSE}, status : ApiStatuses, error : BOOLEAN]
\* decoded bodies of a response to a command
Bodies == {"b1", "b2"}
Commands == {"on", "setLevel"}
\* arguments of send_command: None, an int or a str
Args ==
  { [t |-> "none", i |-> 0, s |-> ""],
    [t |-> "int", i |-> 0, s |-> ""], [t |-> "int", i |-> 50, s |-> ""],
    [t |-> "str", i |-> 0, s |-> ""], [t |-> "str", i |-> 0, s |-> "on"] }

NoneAttr == [name |-> "None", currentValue |-> "None"]
\* stands for a KeyError raised where an attribute was to be returned
KeyErrorAttr == [name |-> "KeyError", currentValue |-> "KeyError"]

VARIABLES
  _started,    \* Hub._started
  _devices,    \* Hub._devices: device id -> attribute list of the snapshot
  _info,       \* Hub._info
  _listeners,  \* Hub._listeners: device id -> list of callbacks
  _server,     \* Hub._server: 0 while the attribute is unset, else an index of servers
  servers,    \* running flag of every webhook server this hub created
  st,         \* the start() coroutine
  infoT,      \* the _load_info() task
  ld,         \* the _load_devices() task
  lo,         \* the _load_device() / refresh_device() coroutine
  cc,         \* the check_config() coroutine and its _check_api() task
  cmd,        \* the send_command() coroutine
  net,        \* Maker API requests in flight
  last        \* the step just taken and what its caller observed

vars == <<_started, _devices, _info, _listeners, _server, servers, st, infoT, ld, lo, cc, cmd,
          net, last>>

\* ------------------------------------------------------------------ helpers

\* no response, and the argument None of send_command
NoResp == [transport |-> FALSE, status |-> 0, error |-> FALSE]
NoArg == [t |-> "none", i |-> 0, s |-> ""]

\* the empty dictionary
Empty == [x \in {} |-> <<>>]

IsPrefix(s, t) == Len(s) <= Len(t) /\ SubSeq(t, 1, Len(s)) = s

\* an assignment that rebuilds the dictionary around the one key
Put_Rebuild(f, k, v) == [x \in {k} |-> v]

\* an assignment that keeps the entry a key already has
Put_KeepExisting(f, k, v) ==
  [x \in (DOMAIN f) \cup {k} |-> IF x \in DOMAIN f THEN f[x] ELSE v]

\* f[k] = v of a dictionary
Put(f, k, v) == [x \in (DOMAIN f) \cup {k} |-> IF x = k THEN v ELSE f[x]]

Op(name) ==
  [op |-> name, dev |-> "", name |-> "", value |-> "", force |-> FALSE,
   result |-> "ok", pre |-> <<>>, log |-> <<>>, ret |-> NoneAttr,
   changed |-> FALSE, ids0 |-> {}, srv |-> 0,
   resp |-> NoResp, snap |-> <<>>, path |-> <<>>, arg |-> NoArg, body |-> ""]

\* index of the first attribute called name, 0 when there is none
FirstAttr(attrs, name) ==
  IF \E i \in 1..Len(attrs) : attrs[i].name = name
  THEN CHOOSE i \in 1..Len(attrs) :
         attrs[i].name = name /\ \A j \in 1..(i - 1) : attrs[j].name # name
  ELSE 0

\* ------------------------------------------------------------------ pure parts

\* get_device_attribute with the strict lookup of device_has_attribute
get_device_attribute_strict(devs, id, name) ==
  IF id \notin DOMAIN devs THEN KeyErrorAttr
  ELSE IF FirstAttr(devs[id], name) # 0 THEN devs[id][FirstAttr(devs[id], name)]
  ELSE NoneAttr

\* Hub.get_device_attribute: the attribute, NoneAttr for None
get_device_attribute(devs, id, name) ==
  IF id \in DOMAIN devs /\ FirstAttr(devs[id], name) # 0
  THEN devs[id][FirstAttr(devs[id], name)]
  ELSE NoneAttr

\* Hub.device_has_attribute: "KeyError", or the boolean as "True"/"False"
device_has_attribute(devs, id, name) ==
  IF id \notin DOMAIN devs THEN "KeyError"
  ELSE IF FirstAttr(devs[id], name) # 0 THEN "True" ELSE "False"

\* _update_device_attr without its except KeyError clause
_update_device_attr_no_catch(devs, id, name, value) ==
  IF id \notin DOMAIN devs
  THEN [_devices |-> devs, result |-> "KeyError"]
  ELSE IF FirstAttr(devs[id], name) # 0
  THEN [_devices |-> [devs EXCEPT ![id][FirstAttr(devs[id], name)].currentValue = value],
        result |-> "ok"]
  ELSE [_devices |-> devs, result |-> "InvalidAttribute"]

\* _update_device_attr without its final raise
_update_device_attr_no_raise(devs, id, name, value) ==
  IF id \in DOMAIN devs /\ FirstAttr(devs[id], name) # 0
  THEN [_devices |-> [devs EXCEPT ![id][FirstAttr(devs[id], name)].currentValue = value],
        result |-> "ok"]
  ELSE [_devices |-> devs, result |-> "ok"]

\* Hub._update_device_attr: the registry afterwards and how the call ended
_update_device_attr(devs, id, name, value) ==
  IF id \notin DOMAIN devs
  THEN [_devices |-> devs, result |-> "ok"]
  ELSE IF FirstAttr(devs[id], name) # 0
  THEN [_devices |-> [devs EXCEPT ![id][FirstAttr(devs[id], name)].currentValue = value],
        result |-> "ok"]
  ELSE [_devices |-> devs, result |-> "InvalidAttribute"]

\* the webhook server collaborator (hubitatmaker.server)
create_server(svs) == Append(svs, FALSE)
ServerStart(svs, i) == [svs EXCEPT ![i] = TRUE]
ServerStop(svs, i) == [svs EXCEPT ![i] = FALSE]

\* stop without the line that resets _listeners
stop_keep_listeners(h, srv) ==
  IF srv = 0
  THEN [h |-> h, result |-> "AttributeError"]
  ELSE [h |-> [_listeners |-> h._listeners, _started |-> FALSE,
               servers |-> [h.servers EXCEPT ![srv] = FALSE]],
        result |-> "ok"]

\* Hub.stop on the hub fields h = [listeners, started, servers]
stop(h, srv) ==
  IF srv = 0
  THEN [h |-> h, result |-> "AttributeError"]
  ELSE [h |-> [_listeners |-> Empty, _started |-> FALSE,
               servers |-> ServerStop(h.servers, srv)],
        result |-> "ok"]

\* the list process_event iterates over for a device id
ListenersFor(ls, id) == IF id \in DOMAIN ls THEN ls[id] ELSE <<>>

\* the for loop of Hub.process_event over the list object lst, from position i;
\* c = [srv, devs, dev, name] is what the callbacks can see
RECURSIVE RunListeners(_, _, _, _, _)
RunListeners(lst, i, h, log, c) ==
  IF i > Len(lst)
  THEN [h |-> h, log |-> log, result |-> "ok"]
  ELSE LET e == [l |-> lst[i],
                 seen |-> get_device_attribute(c.devs, c.dev, c.name).currentValue,
                 registered |-> ListenersFor(h._listeners, c.dev) = lst /\ lst # <<>>]
           s == stop(h, c.srv)
       IN CASE lst[i] = "raise" ->
                 [h |-> h, log |-> Append(log, e), result |-> "ListenerError"]
            [] lst[i] = "stop" /\ s.result # "ok" ->
                 [h |-> h, log |-> Append(log, e), result |-> s.result]
            [] lst[i] = "stop" /\ s.result = "ok" ->
                 RunListeners(lst, i + 1, s.h, Append(log, e), c)
            [] OTHER -> RunListeners(lst, i + 1, h, Append(log, e), c)

\* Hub._api_request without the special case of status 401
_api_request_no_401(resp) ==
  IF resp.transport THEN "ClientError"
  ELSE IF resp.status >= 400 THEN "RequestError"
  ELSE IF resp.error THEN "RequestError" ELSE "ok"

\* Hub._api_request: how a response is classified
_api_request(resp) ==
  IF resp.transport THEN "ClientError"
  ELSE IF resp.status >= 400
  THEN (IF resp.status = 401 THEN "InvalidToken" ELSE "RequestError")
  ELSE IF resp.error THEN "RequestError" ELSE "ok"

\* Python's truth value of an argument of send_command
Truthy(a) == (a.t = "int" /\ a.i # 0) \/ (a.t = "str" /\ a.s # "")

\* the argument as an f-string renders it
FmtArg(a) == IF a.t = "int" THEN ToString(a.i) ELSE IF a.t = "str" THEN a.s ELSE "None"

\* the path send_command requests, as its segments between the slashes
command_path(id, command, arg) ==
  <<"devices", id, command>> \o (IF Truthy(arg) THEN <<FmtArg(arg)>> ELSE <<>>)

\* the except clause of Hub.start
StartError(e) == IF e = "ClientError" THEN "ConnectionError" ELSE e

\* the guard of _load_device without force_refresh
NeedsLoad_IgnoreForce(devs, id, force) == id \notin DOMAIN devs

\* the guard of Hub._load_device
NeedsLoad(devs, id, force) == force \/ id \notin DOMAIN devs

\* the guard of Hub._load_devices
NeedsList(devs, force) == force \/ Cardinality(DOMAIN devs) = 0

\* ------------------------------------------------------------------ state

Idle == [pc |-> "idle", ids0 |-> {}, srv |-> 0]
NoLoad == [pc |-> "none", list |-> <<>>, idx |-> 0, force |-> FALSE]
NoOne == [pc |-> "none", dev |-> ""]
NoCheck == [pc |-> "idle", api |-> "none"]
NoCmd == [pc |-> "none", path |-> <<>>]

Init ==
  /\ _started = FALSE
  /\ _devices = Empty
  /\ _info = "none"
  /\ _listeners = Empty
  /\ _server = 0
  /\ servers = <<>>
  /\ st = Idle
  /\ infoT = "none"
  /\ ld = NoLoad
  /\ lo = NoOne
  /\ cc = NoCheck
  /\ cmd = NoCmd
  /\ net = {}
  /\ last = Op("init")

\* ------------------------------------------------------------------ registry and events

\* Hub.add_device_listener
add_device_listener(id, k) ==
  /\ Len(ListenersFor(_listeners, id)) < MaxListeners
  /\ _listeners' = Put(_listeners, id, Append(ListenersFor(_listeners, id), k))
  /\ last' = [Op("add_device_listener") EXCEPT !.dev = id]
  /\ UNCHANGED <<_started, _devices, _info, _server, servers, st, infoT, ld, lo, net, cc, cmd>>

\* Hub.remove_device_listeners
remove_device_listeners(id) ==
  /\ _listeners' = Put(_listeners, id, <<>>)
  /\ last' = [Op("remove_device_listeners") EXCEPT !.dev = id]
  /\ UNCHANGED <<_started, _devices, _info, _server, servers, st, infoT, ld, lo, net, cc, cmd>>

\* Hub.process_event, with the callbacks it runs
process_event(id, name, value) ==
  LET u == _update_device_attr(_devices, id, name, value)
      lst == ListenersFor(_listeners, id)
      h0 == [_listeners |-> _listeners, _started |-> _started, servers |-> servers]
      r == IF u.result = "ok"
           THEN RunListeners(lst, 1, h0, <<>>,
                             [srv |-> _server, devs |-> u._devices, dev |-> id, name |-> name])
           ELSE [h |-> h0, log |-> <<>>, result |-> u.result]
  IN /\ _devices' = u._devices
     /\ _listeners' = r.h._listeners
     /\ _started' = r.h._started
     /\ servers' = r.h.servers
     /\ last' = [Op("process_event") EXCEPT !.dev = id, !.name = name, !.value = value,
                   !.result = r.result, !.pre = lst, !.log = r.log,
                   !.changed = (u._devices # _devices)]
     /\ UNCHANGED <<_info, _server, st, infoT, ld, lo, net, cc, cmd>>

\* Hub.get_device_attribute
GetAttribute(id, name) ==
  /\ last' = [Op("get_device_attribute") EXCEPT !.dev = id, !.name = name,
                !.ret = get_device_attribute(_devices, id, name)]
  /\ UNCHANGED <<_started, _devices, _info, _listeners, _server, servers, st, infoT, ld, lo, net, cc, cmd>>

\* Hub.device_has_attribute
HasAttribute(id, name) ==
  /\ last' = [Op("device_has_attribute") EXCEPT !.dev = id, !.name = name,
                !.result = device_has_attribute(_devices, id, name)]
  /\ UNCHANGED <<_started, _devices, _info, _listeners, _server, servers, st, infoT, ld, lo, net, cc, cmd>>

\* a stop that also posts to the hub to clear the webhook URL
Stop_Unregisters ==
  LET s == stop([_listeners |-> _listeners, _started |-> _started, servers |-> servers], _server)
  IN /\ _listeners' = s.h._listeners
     /\ _started' = s.h._started
     /\ servers' = s.h.servers
     /\ net' = net \cup {[owner |-> "st", kind |-> "postURL", dev |-> ""]}
     /\ last' = [Op("stop") EXCEPT !.result = s.result]
     /\ UNCHANGED <<_devices, _info, _server, st, infoT, ld, lo, cc, cmd>>

\* Hub.stop
Stop ==
  LET s == stop([_listeners |-> _listeners, _started |-> _started, servers |-> servers], _server)
  IN /\ _listeners' = s.h._listeners
     /\ _started' = s.h._started
     /\ servers' = s.h.servers
     /\ last' = [Op("stop") EXCEPT !.result = s.result]
     /\ UNCHANGED <<_devices, _info, _server, st, infoT, ld, lo, net, cc, cmd>>

\* ------------------------------------------------------------------ requests

Req(owner, kind, dev) == [owner |-> owner, kind |-> kind, dev |-> dev]

Running(t) == t.pc \in {"list", "detail"}

\* _load_devices asking for every device at once
NextLoads_All(devs, list, from, force) ==
  { i \in from..Len(list) : force \/ list[i] \notin DOMAIN devs }

\* the positions of list whose detail request _load_devices issues next, looking
\* from position from on: the first one _load_device does not skip
NextLoads(devs, list, from, force) ==
  LET todo == { i \in from..Len(list) : NeedsLoad(devs, list[i], force) }
  IN IF todo = {} THEN {}
     ELSE { CHOOSE i \in todo : \A j \in todo : i <= j }

Min(S) == CHOOSE i \in S : \A j \in S : i <= j

\* _load_devices goes on from position from of its list: the task afterwards
LoadFrom(devs, list, from, force, awaited) ==
  LET nx == NextLoads(devs, list, from, force)
  IN IF nx = {}
     THEN (IF awaited THEN [pc |-> "ok", list |-> list, idx |-> Len(list), force |-> force]
           ELSE NoLoad)
     ELSE [pc |-> "detail", list |-> list, idx |-> Min(nx), force |-> force]

\* the requests that step issues
LoadFromReqs(devs, list, from, force) ==
  { Req("ld", "detail", list[i]) : i \in NextLoads(devs, list, from, force) }

\* a failed _load_devices task
LoadFailed(t, err, awaited) == IF awaited THEN [t EXCEPT !.pc = err] ELSE NoLoad

\* ------------------------------------------------------------------ lifecycle

\* Hub.start up to its first await: the server is created and started and the
\* postURL request is issued
start ==
  /\ st.pc = "idle"
  /\ cc.pc = "idle"
  /\ infoT # "inflight"
  /\ ~Running(ld)
  /\ Len(servers) < MaxStarts
  /\ _server' = Len(servers) + 1
  /\ servers' = ServerStart(create_server(servers), Len(servers) + 1)
  /\ st' = [pc |-> "postURL", ids0 |-> DOMAIN _devices, srv |-> Len(servers) + 1]
  /\ net' = net \cup {Req("st", "postURL", "")}
  /\ infoT' = "none"
  /\ ld' = NoLoad
  /\ last' = [Op("start") EXCEPT !.result = "pending",
                !.ids0 = DOMAIN _devices, !.srv = Len(servers) + 1]
  /\ UNCHANGED <<_started, _devices, _info, _listeners, lo, cc, cmd>>

\* the postURL response arrives: start() fails, or goes on to gather(), whose
\* two tasks run up to their first await
PostURLResponse(resp) ==
  /\ st.pc = "postURL"
  /\ Req("st", "postURL", "") \in net
  /\ IF _api_request(resp) = "ok"
     THEN /\ st' = [st EXCEPT !.pc = "gather"]
          /\ infoT' = "inflight"
          /\ IF NeedsList(_devices, FALSE)
             THEN /\ ld' = [pc |-> "list", list |-> <<>>, idx |-> 0, force |-> FALSE]
                  /\ net' = (net \ {Req("st", "postURL", "")}) \cup {Req("ld", "list", "")}
             ELSE /\ ld' = [pc |-> "ok", list |-> <<>>, idx |-> 0, force |-> FALSE]
                  /\ net' = net \ {Req("st", "postURL", "")}
          /\ last' = Op("resp")
     ELSE /\ st' = Idle
          /\ net' = net \ {Req("st", "postURL", "")}
          /\ last' = [Op("start") EXCEPT !.result = StartError(_api_request(resp)),
                        !.ids0 = st.ids0, !.srv = st.srv]
          /\ UNCHANGED <<infoT, ld>>
  /\ UNCHANGED <<_started, _devices, _info, _listeners, _server, servers, lo, cc, cmd>>

\* what _load_info does with an outcome of the page fetch: the new _info and how
\* the task ends
_load_info(old, o) ==
  CASE o = "http_error" -> [_info |-> old, result |-> "ok"]
    [] o = "parsed" -> [_info |-> "details", result |-> "ok"]
    [] o = "parse_error" -> [_info |-> old, result |-> "ok"]
    [] o = "transport" -> [_info |-> old, result |-> "ClientError"]
    [] OTHER -> [_info |-> old, result |-> "TimeoutError"]

\* the admin page fetch of _load_info ends
InfoResponse(o) ==
  /\ infoT = "inflight"
  /\ _info' = _load_info(_info, o)._info
  /\ infoT' = IF st.pc = "gather" \/ cc.pc = "gather"
               THEN _load_info(_info, o).result ELSE "none"
  /\ last' = [Op("resp_info") EXCEPT !.name = o]
  /\ UNCHANGED <<_started, _devices, _listeners, _server, servers, st, ld, lo, net, cc, cmd>>

\* the response to the devices request of _load_devices arrives
ListResponse(resp, list) ==
  /\ ld.pc = "list"
  /\ Req("ld", "list", "") \in net
  /\ IF _api_request(resp) = "ok"
     THEN /\ ld' = LoadFrom(_devices, list, 1, ld.force, st.pc = "gather")
          /\ net' = (net \ {Req("ld", "list", "")})
                      \cup LoadFromReqs(_devices, list, 1, ld.force)
     ELSE /\ ld' = LoadFailed(ld, _api_request(resp), st.pc = "gather")
          /\ net' = net \ {Req("ld", "list", "")}
  /\ last' = Op("resp")
  /\ UNCHANGED <<_started, _devices, _info, _listeners, _server, servers, st, infoT, lo, cc, cmd>>

\* the response to a devices/{id} request of _load_devices arrives
DetailResponse(resp, snap) ==
  \E r \in net :
    /\ r.owner = "ld" /\ r.kind = "detail"
    /\ ld.pc = "detail"
    /\ IF _api_request(resp) = "ok"
       THEN /\ _devices' = Put(_devices, r.dev, snap)
            /\ ld' = LoadFrom(_devices', ld.list, ld.idx + 1, ld.force, st.pc = "gather")
            /\ net' = (net \ {r}) \cup LoadFromReqs(_devices', ld.list, ld.idx + 1, ld.force)
       ELSE /\ _devices' = _devices
            /\ ld' = LoadFailed(ld, _api_request(resp), st.pc = "gather")
            /\ net' = net \ {r}
    /\ last' = Op("resp")
    /\ UNCHANGED <<_started, _info, _listeners, _server, servers, st, infoT, lo, cc, cmd>>

Failed(r) == r \notin {"none", "inflight", "list", "detail", "ok"}

\* gather() hands its result to start(): the first exception of a task, or
\* success once both tasks are done
StartResume ==
  /\ st.pc = "gather"
  /\ \/ /\ infoT = "ok" /\ ld.pc = "ok"
        /\ _started' = TRUE
        /\ last' = [Op("start") EXCEPT !.result = "ok", !.ids0 = st.ids0, !.srv = st.srv]
     \/ \E e \in {infoT, ld.pc} :
          /\ Failed(e)
          /\ _started' = _started
          /\ last' = [Op("start") EXCEPT !.result = StartError(e),
                        !.ids0 = st.ids0, !.srv = st.srv]
  /\ st' = Idle
  /\ infoT' = IF infoT = "inflight" THEN infoT ELSE "none"
  /\ ld' = IF Running(ld) THEN ld ELSE NoLoad
  /\ UNCHANGED <<_devices, _info, _listeners, _server, servers, lo, net, cc, cmd>>

\* Hub._load_devices called on its own, up to its first await
_load_devices(force) ==
  /\ st.pc = "idle"
  /\ ld.pc = "none"
  /\ IF NeedsList(_devices, force)
     THEN /\ ld' = [pc |-> "list", list |-> <<>>, idx |-> 0, force |-> force]
          /\ net' = net \cup {Req("ld", "list", "")}
          /\ last' = [Op("_load_devices") EXCEPT !.force = force]
     ELSE /\ UNCHANGED <<ld, net>>
          /\ last' = [Op("_load_devices") EXCEPT !.force = force]
  /\ UNCHANGED <<_started, _devices, _info, _listeners, _server, servers, st, infoT, lo, cc, cmd>>

\* Hub._load_device up to its await
_load_device(id, force, name) ==
  /\ lo.pc = "none"
  /\ IF NeedsLoad(_devices, id, force)
     THEN /\ lo' = [pc |-> "inflight", dev |-> id]
          /\ net' = net \cup {Req("lo", "detail", id)}
          /\ last' = [Op(name) EXCEPT !.dev = id, !.force = force]
     ELSE /\ UNCHANGED <<lo, net>>
          /\ last' = [Op(name) EXCEPT !.dev = id, !.force = force]
  /\ UNCHANGED <<_started, _devices, _info, _listeners, _server, servers, st, infoT, ld, cc, cmd>>

LoadOne(id) == _load_device(id, FALSE, "_load_device")

\* Hub.refresh_device
refresh_device(id) == _load_device(id, TRUE, "refresh_device")

\* the response to the request of _load_device arrives
LoadDeviceResponse(resp, snap) ==
  /\ lo.pc = "inflight"
  /\ Req("lo", "detail", lo.dev) \in net
  /\ _devices' = IF _api_request(resp) = "ok" THEN Put(_devices, lo.dev, snap) ELSE _devices
  /\ lo' = NoOne
  /\ net' = net \ {Req("lo", "detail", lo.dev)}
  /\ last' = [Op("resp_device") EXCEPT !.dev = lo.dev, !.result = _api_request(resp),
                !.snap = IF _api_request(resp) = "ok" THEN snap ELSE <<>>]
  /\ UNCHANGED <<_started, _info, _listeners, _server, servers, st, infoT, ld, cc, cmd>>

\* ------------------------------------------------------------------ check_config

\* the except clause of Hub.check_config
ConfigError(e) == IF e = "ClientError" THEN "ConnectionError" ELSE e

\* a check_config that registers the webhook URL as start() does
check_config_registers ==
  /\ cc = NoCheck
  /\ st.pc = "idle"
  /\ infoT # "inflight"
  /\ cc' = [pc |-> "gather", api |-> "inflight"]
  /\ infoT' = "inflight"
  /\ net' = net \cup {[owner |-> "cc", kind |-> "list", dev |-> ""],
                      [owner |-> "st", kind |-> "postURL", dev |-> ""]}
  /\ last' = [Op("check_config") EXCEPT !.result = "pending"]
  /\ UNCHANGED <<_started, _devices, _info, _listeners, _server, servers, st, ld, lo, cmd>>

\* Hub.check_config up to its first await: gather() runs _load_info and
\* _check_api up to theirs, the page fetch and the devices request
check_config ==
  /\ cc = NoCheck
  /\ st.pc = "idle"
  /\ infoT # "inflight"
  /\ cc' = [pc |-> "gather", api |-> "inflight"]
  /\ infoT' = "inflight"
  /\ net' = net \cup {Req("cc", "list", "")}
  /\ last' = [Op("check_config") EXCEPT !.result = "pending"]
  /\ UNCHANGED <<_started, _devices, _info, _listeners, _server, servers, st, ld, lo, cmd>>

\* the response to the devices request of _check_api arrives; the body is dropped
CheckApiResponse(resp) ==
  /\ cc.api = "inflight"
  /\ Req("cc", "list", "") \in net
  /\ cc' = [cc EXCEPT !.api = IF cc.pc = "gather" THEN _api_request(resp) ELSE "none"]
  /\ net' = net \ {Req("cc", "list", "")}
  /\ last' = [Op("resp_check") EXCEPT !.resp = resp]
  /\ UNCHANGED <<_started, _devices, _info, _listeners, _server, servers, st, infoT, ld, lo, cmd>>

\* gather() hands its result to check_config(): the first exception of a task,
\* or success once both tasks are done
CheckResume ==
  /\ cc.pc = "gather"
  /\ \/ /\ infoT = "ok" /\ cc.api = "ok"
        /\ last' = [Op("check_config") EXCEPT !.result = "ok"]
     \/ \E e \in {infoT, cc.api} :
          /\ Failed(e)
          /\ last' = [Op("check_config") EXCEPT !.result = ConfigError(e)]
  /\ cc' = [pc |-> "idle", api |-> IF cc.api = "inflight" THEN "inflight" ELSE "none"]
  /\ infoT' = IF infoT = "inflight" THEN infoT ELSE "none"
  /\ UNCHANGED <<_started, _devices, _info, _listeners, _server, servers, st, ld, lo, cmd, net>>

\* ------------------------------------------------------------------ commands

\* Hub.send_command up to its await
send_command(id, command, arg) ==
  /\ cmd.pc = "none"
  /\ cmd' = [pc |-> "inflight", path |-> command_path(id, command, arg)]
  /\ net' = net \cup {Req("cmd", "command", id)}
  /\ last' = [Op("send_command") EXCEPT !.dev = id, !.name = command, !.arg = arg,
                !.path = command_path(id, command, arg), !.result = "pending"]
  /\ UNCHANGED <<_started, _devices, _info, _listeners, _server, servers, st, infoT, ld, lo, cc>>

\* the response to the request of send_command arrives: _api_request raises or
\* returns the decoded body, which send_command returns
CommandResponse(resp, body) ==
  \E r \in net :
    /\ r.owner = "cmd"
    /\ cmd.pc = "inflight"
    /\ cmd' = NoCmd
    /\ net' = net \ {r}
    /\ last' = [Op("resp_command") EXCEPT !.dev = r.dev, !.path = cmd.path, !.resp = resp,
                  !.body = body, !.result = _api_request(resp),
                  !.value = IF _api_request(resp) = "ok" THEN body ELSE ""]
    /\ UNCHANGED <<_started, _devices, _info, _listeners, _server, servers, st, infoT, ld, lo, cc>>

\* ------------------------------------------------------------------ specification

\* the loading and start/stop lifecycle, with events arriving in between
Next ==
  \/ Stop
  \/ start
  \/ \E resp \in Responses : PostURLResponse(resp)
  \/ \E o \in InfoOutcomes : InfoResponse(o)
  \/ \E resp \in Responses, list \in DeviceLists : ListResponse(resp, list)
  \/ \E resp \in Responses, snap \in Snapshots : DetailResponse(resp, snap)
  \/ StartResume
  \/ \E force \in BOOLEAN : _load_devices(force)
  \/ \E id \in DevIds : LoadOne(id)
  \/ \E id \in DevIds : refresh_device(id)
  \/ \E resp \in Responses, snap \in Snapshots : LoadDeviceResponse(resp, snap)

Spec == Init /\ [][Next]_vars

\* listeners and events for one device of a hub that is started and stopped;
\* the device is cached by the load of start()
EvDevs == {"d1"}
EvLists == { <<"d1">> }
EvInfo == {"http_error"}
EvSnapshots ==
  Snapshots \cup { <<[name |-> "level", currentValue |-> "off"],
                     [name |-> "switch", currentValue |-> "on"]>> }

NextEvents ==
  \/ \E id \in EvDevs, k \in ListenerKinds : add_device_listener(id, k)
  \/ \E id \in EvDevs : remove_device_listeners(id)
  \/ \E id \in DevIds, n \in EventNames, v \in Values : process_event(id, n, v)
  \/ Stop
  \/ start
  \/ \E resp \in Responses : PostURLResponse(resp)
  \/ \E o \in EvInfo : InfoResponse(o)
  \/ \E resp \in Responses, list \in EvLists : ListResponse(resp, list)
  \/ \E resp \in Responses, snap \in EvSnapshots : DetailResponse(resp, snap)
  \/ StartResume

SpecEvents == Init /\ [][NextEvents]_vars

\* reads of the registry while devices are refreshed and events arrive
QuerySnapshots == EvSnapshots \cup { <<>> }

NextQuery ==
  \/ \E id \in DevIds : refresh_device(id)
  \/ \E resp \in Responses, snap \in QuerySnapshots : LoadDeviceResponse(resp, snap)
  \/ \E id \in DevIds, n \in EventNames, v \in Values : process_event(id, n, v)
  \/ \E id \in DevIds, n \in EventNames : GetAttribute(id, n)
  \/ \E id \in DevIds, n \in EventNames : HasAttribute(id, n)

SpecQuery == Init /\ [][NextQuery]_vars

\* check_config() and start() against a hub that answers, fails or times out
NextConfig ==
  \/ check_config
  \/ \E resp \in Responses : CheckApiResponse(resp)
  \/ CheckResume
  \/ \E o \in InfoOutcomes : InfoResponse(o)
  \/ \E id \in EvDevs, k \in ListenerKinds : add_device_listener(id, k)
  \/ Stop
  \/ start
  \/ \E resp \in Responses : PostURLResponse(resp)
  \/ \E resp \in Responses, list \in EvLists : ListResponse(resp, list)
  \/ \E resp \in Responses, snap \in Snapshots : DetailResponse(resp, snap)
  \/ StartResume

SpecConfig == Init /\ [][NextConfig]_vars

\* commands sent to the hub while devices are refreshed
NextApi ==
  \/ \E id \in DevIds, c \in Commands, a \in Args : send_command(id, c, a)
  \/ \E resp \in ApiResponses, body \in Bodies : CommandResponse(resp, body)
  \/ \E id \in DevIds : refresh_device(id)
  \/ \E resp \in Responses, snap \in Snapshots : LoadDeviceResponse(resp, snap)

SpecApi == Init /\ [][NextApi]_vars

\* start() called again and again, after failures and after stop(), on a hub
\* whose device list is HubList
HubList == <<"d1", "d2">>

NextRetry ==
  \/ start
  \/ \E resp \in Responses : PostURLResponse(resp)
  \/ \E o \in EvInfo : InfoResponse(o)
  \/ \E resp \in Responses : ListResponse(resp, HubList)
  \/ \E resp \in Responses, snap \in Snapshots : DetailResponse(resp, snap)
  \/ StartResume
  \/ Stop

SpecRetry == Init /\ [][NextRetry]_vars

\* every way the registry is written: loads of all kinds, events, start and stop
RegLists == { <<>>, <<"d1">>, <<"d1", "d2">> }

NextRegistry ==
  \/ Stop
  \/ start
  \/ \E resp \in Responses : PostURLResponse(resp)
  \/ \E o \in EvInfo : InfoResponse(o)
  \/ \E resp \in Responses, list \in RegLists : ListResponse(resp, list)
  \/ \E resp \in Responses, snap \in Snapshots : DetailResponse(resp, snap)
  \/ StartResume
  \/ \E force \in BOOLEAN : _load_devices(force)
  \/ \E id \in DevIds : LoadOne(id)
  \/ \E id \in DevIds : refresh_device(id)
  \/ \E resp \in Responses, snap \in Snapshots : LoadDeviceResponse(resp, snap)
  \/ \E id \in DevIds, n \in EventNames, v \in Values : process_event(id, n, v)

SpecRegistry == Init /\ [][NextRegistry]_vars

\* ------------------------------------------------------------------ properties

IsEvent == last.op = "process_event"
KnownDevice == last.dev \in DOMAIN _devices
KnownAttr == KnownDevice /\ \E i \in 1..Len(_devices[last.dev]) : _devices[last.dev][i].name = last.name
Called == [i \in 1..Len(last.log) |-> last.log[i].l]
\* a callback ended the dispatch by raising
Raised == last.result \notin {"ok", "InvalidAttribute"}

\* C1: an event for a known device and a known attribute sets the attribute's
\* currentValue and then calls every listener registered for the device once per
\* registration, in registration order, each seeing the new value.
C1_EventNotifiesAll ==
  (IsEvent /\ KnownAttr) =>
    /\ \A i \in 1..Len(_devices[last.dev]) :
         _devices[last.dev][i].name = last.name => _devices[last.dev][i].currentValue = last.value
    /\ Called = last.pre
    /\ \A i \in 1..Len(last.log) : last.log[i].seen = last.value

\* C2 as written: an event for an unknown device id raises nothing, calls no
\* listener and leaves the registry unchanged.
C2_UnknownDeviceNoOp ==
  (IsEvent /\ ~KnownDevice) =>
    last.result = "ok" /\ last.log = <<>> /\ ~last.changed

\* C2 amended: an event for an unknown device id leaves the registry unchanged
\* and the update itself raises nothing, but the listeners registered for that id
\* are still called in registration order: all of them when none raises, and up
\* to the first one that raises otherwise.
C2_UnknownDeviceStillDispatches ==
  (IsEvent /\ ~KnownDevice) =>
    /\ ~last.changed
    /\ last.result # "InvalidAttribute"
    /\ IsPrefix(Called, last.pre)
    /\ last.result = "ok" => Called = last.pre
    /\ Raised => (last.log # <<>> /\ last.log[Len(last.log)].l \in {"raise", "stop"})

C2_Witness ==
  IsEvent /\ ~KnownDevice /\ last.result = "ok" /\ Len(last.log) = 2

\* C3: an event for a known device whose attribute name the device does not have
\* fails with InvalidAttribute, calls no listener and changes no attribute value.
C3_UnknownAttributeFails ==
  (IsEvent /\ KnownDevice /\ ~KnownAttr) =>
    last.result = "InvalidAttribute" /\ last.log = <<>> /\ ~last.changed

C3_Witness ==
  IsEvent /\ KnownDevice /\ ~KnownAttr /\ last.pre # <<>> /\ last.result = "InvalidAttribute"

StartFailed == last.op = "start" /\ last.result \notin {"ok", "pending"}

\* C4: a start() that fails leaves the hub not started, the registry with exactly
\* the devices it had before the call, and the server it started not running.
C4_StartAllOrNothing ==
  StartFailed =>
    ~_started /\ DOMAIN _devices = last.ids0 /\ ~servers[last.srv]

\* C5: after a stop() that follows at least one start(), no webhook server this
\* hub created is running, and that stop() did not fail.
C5_StopReleasesServers ==
  (last.op = "stop" /\ _server # 0) =>
    last.result = "ok" /\ \A i \in 1..Len(servers) : ~servers[i]

\* C6: the hub is started only when no start() is in progress and the latest
\* start() did not fail, and a stop() is only ever applied to a started hub.
C6_Lifecycle ==
  [][ /\ _started' => (st'.pc = "idle" /\ ~StartFailed')
      /\ (_started' /\ ~_started) => (last'.op = "start" /\ last'.result = "ok")
      /\ (_started /\ ~_started') => (last'.op \in {"stop", "process_event"})
      /\ (last'.op = "stop" /\ last'.result = "ok") => _started ]_vars

IsLoadOne == last.op \in {"_load_device", "refresh_device"}

\* C7: _load_device without force for a cached id issues no request and changes
\* nothing; with force (refresh_device always forces) it issues exactly one
\* devices/{id} request, cached or not.
C7_LoadOneCache ==
  [][ /\ (IsLoadOne' /\ ~last'.force /\ last'.dev \in DOMAIN _devices) =>
           (net' = net /\ _devices' = _devices /\ lo' = lo)
      /\ (IsLoadOne' /\ last'.force) =>
           /\ Req("lo", "detail", last'.dev) \notin net
           /\ net' = net \cup {Req("lo", "detail", last'.dev)}
           /\ _devices' = _devices
      /\ last'.op = "refresh_device" => last'.force ]_vars

C7_Witness ==
  last.op = "_load_device" /\ ~last.force /\ last.dev \in DOMAIN _devices /\ lo.pc = "none"

LdDetails == { r \in net : r.owner = "ld" /\ r.kind = "detail" }

\* C8: one _load_devices has at most one devices/{id} request in flight, asks in
\* list order, asks for the next device only once the previous one is stored, and
\* skips exactly the devices that are cached when the load is not forced.
C8_SequentialLoad ==
  [][ /\ Cardinality(LdDetails') <= 1
      /\ ld'.pc = "detail" =>
           /\ LdDetails' = {Req("ld", "detail", ld'.list[ld'.idx])}
           /\ \A j \in 1..(ld'.idx - 1) : ld'.list[j] \in DOMAIN _devices'
      /\ (ld'.pc = "detail" /\ (ld.pc # "detail" \/ ld'.idx # ld.idx)) =>
           /\ ld'.idx > ld.idx
           /\ ld'.force \/ ld'.list[ld'.idx] \notin DOMAIN _devices'
           /\ \A j \in (ld.idx + 1)..(ld'.idx - 1) :
                ~ld'.force /\ ld'.list[j] \in DOMAIN _devices' ]_vars

C8_Witness ==
  /\ ld.pc = "detail" /\ ld.idx = 2
  /\ ld.list[1] \in DOMAIN _devices
  /\ LdDetails = {Req("ld", "detail", ld.list[2])}

\* a callback of the dispatch called stop() and stop() returned
StoppedAt(i) ==
  last.log[i].l = "stop" /\ (i < Len(last.log) \/ last.result = "ok")

C11_TransportFailuresUniform ==
  last.op \in {"start", "check_config"}
    => last.result \in {"pending", "ok", "ConnectionError", "InvalidToken", "RequestError"}

\* how a response that arrived has to be classified
Classified(r) ==
  IF r.status = 401 THEN "InvalidToken"
  ELSE IF r.status >= 400 THEN "RequestError"
  ELSE IF r.error THEN "RequestError" ELSE "ok"

\* C12: every response to a request is classified as exactly one of
\* InvalidToken (status 401), RequestError (status >= 400 other than 401, or
\* status < 400 with a truthy error field) or success, which returns the decoded
\* body unchanged; a failed request is not repeated and changes no hub state.
C12_RequestClassification ==
  [][(cmd.pc = "inflight" /\ cmd'.pc = "none" /\ ~last'.resp.transport)
       => /\ last'.result = Classified(last'.resp)
          /\ last'.result = "ok" => last'.value = last'.body
          /\ last'.result # "ok"
               => /\ net' \subseteq net
                  /\ <<_started, _devices, _info, _listeners, _server, servers>>' =
                       <<_started, _devices, _info, _listeners, _server, servers>>]_vars

C12_Witness ==
  /\ last.op = "resp_command" /\ last.result = "RequestError"
  /\ last.resp.status < 400 /\ last.resp.error
  /\ _devices # Empty

\* C13: send_command requests devices/{id}/{command}/{arg} whenever an argument
\* is supplied, 0 and the empty string included, and devices/{id}/{command}
\* when none is; a successful call returns the decoded response unchanged.
C13_CommandPath ==
  /\ last.op = "send_command"
       => last.path = <<"devices", last.dev, last.name>>
                        \o (IF last.arg.t # "none" THEN <<FmtArg(last.arg)>> ELSE <<>>)
  /\ (last.op = "resp_command" /\ last.result = "ok") => last.value = last.body

\* C14: in start(), whatever the outcome of the hub-info load (status >= 400,
\* unparsable page, failed or timed-out page fetch), start() returns only once
\* the device load running alongside it has ended, and when that load did not
\* fail start() succeeds and the hub is started; an info load that ends with
\* status >= 400 leaves _info unchanged.
C14_InfoNeverBlocksDevices ==
  [][/\ (st.pc = "gather" /\ st'.pc = "idle" /\ ~Failed(ld.pc))
          => (ld.pc = "ok" /\ last'.result = "ok" /\ _started')
     /\ (last'.op = "resp_info" /\ last'.name = "http_error") => _info' = _info]_vars

\* C15: stop() issues no request to the hub, and the device registry and
\* _info are the same after it as before.
C15_StopIsLocal ==
  [][last'.op = "stop" => (net' = net /\ _devices' = _devices /\ _info' = _info)]_vars

C15_Witness ==
  /\ last.op = "stop" /\ last.result = "ok"
  /\ _devices # Empty /\ _info = "details"
  /\ ~_started /\ \A i \in 1..Len(servers) : ~servers[i]

\* a step of check_config(): its call, the end of one of its two tasks, its return
CheckConfigStep == cc' # cc \/ (cc.pc = "gather" /\ infoT' # infoT)

\* C16: check_config() creates and starts no webhook server, registers no
\* webhook URL, and leaves the device registry, the listener registrations and
\* _started unchanged, whether it succeeds or fails; the only requests it
\* issues are the devices list and the admin page fetch, both in flight at once.
C16_CheckConfigFrame ==
  [][CheckConfigStep
       => /\ <<_started, _devices, _listeners, _server, servers>>' =
               <<_started, _devices, _listeners, _server, servers>>
          /\ net' \ net \subseteq {Req("cc", "list", "")}
          /\ (cc.pc = "idle" /\ cc'.pc = "gather")
               => (net' \ net = {Req("cc", "list", "")} /\ infoT' = "inflight")]_vars

C16_Witness ==
  /\ last.op = "check_config" /\ last.result \in {"ok", "ConnectionError"}
  /\ _started /\ _devices # Empty /\ _listeners # Empty

\* C17: whenever start() returns successfully, every device id of the list the
\* hub returns is in the device registry, also when the call is a retry after a
\* start() that failed part-way through device loading, or follows stop().
C17_StartLoadsEveryDevice ==
  (last.op = "start" /\ last.result = "ok")
    => \A i \in 1..Len(HubList) : HubList[i] \in DOMAIN _devices

\* C18: an event and a refresh_device() for the same device are last-writer-
\* wins. When the refresh response is stored the entry is the fetched snapshot,
\* whatever events were applied while the request was in flight; an event
\* applied to a cached device changes nothing but the currentValue of
\* attributes with the event's name, and sets the value read for that name;
\* neither step touches another entry or other hub state.
C18_LastWriterWins ==
  [][/\ (last'.op = "resp_device" /\ last'.result = "ok")
          => /\ DOMAIN _devices' = DOMAIN _devices \cup {last'.dev}
             /\ _devices'[last'.dev] = last'.snap
             /\ \A d \in DOMAIN _devices \ {last'.dev} : _devices'[d] = _devices[d]
     /\ (last'.op = "process_event" /\ last'.result = "ok")
          => /\ DOMAIN _devices' = DOMAIN _devices
             /\ \A d \in DOMAIN _devices :
                  /\ Len(_devices'[d]) = Len(_devices[d])
                  /\ \A i \in 1..Len(_devices[d]) :
                       _devices'[d][i] # _devices[d][i]
                         => /\ d = last'.dev
                            /\ _devices[d][i].name = last'.name
                            /\ _devices'[d][i] = [name |-> last'.name,
                                                  currentValue |-> last'.value]
             /\ last'.dev \in DOMAIN _devices
                  => FirstAttr(_devices'[last'.dev], last'.name) # 0
                     /\ _devices'[last'.dev][FirstAttr(_devices'[last'.dev], last'.name)]
                            .currentValue = last'.value
     /\ last'.op \in {"resp_device", "process_event"}
          => <<_started, _info, _listeners, _server, servers>>' =
               <<_started, _info, _listeners, _server, servers>>]_vars

\* an event changed the entry of a device whose refresh is in flight
C18_Witness ==
  /\ last.op = "process_event" /\ last.changed
  /\ lo.pc = "inflight" /\ lo.dev = last.dev

\* C19: when a listener raises during the dispatch of an event, the listeners
\* registered after it are still called, each once, in registration order.
C19_RaisingListenerIsolated ==
  (IsEvent /\ \E i \in 1..Len(last.log) : last.log[i].l = "raise")
    => Called = last.pre

\* C20: no step removes a device id from the registry (events, refreshes,
\* forced and unforced loads of a shorter device list, failed requests, stop(),
\* further start() calls), and a failed _load_device or refresh_device request
\* leaves the registry as it was.
C20_EntriesNeverDeleted ==
  [][/\ DOMAIN _devices \subseteq DOMAIN _devices'
     /\ (last'.op = "resp_device" /\ last'.result # "ok") => _devices' = _devices]_vars

\* a refresh of a cached device failed
C20_Witness ==
  /\ last.op = "resp_device" /\ last.result # "ok"
  /\ last.dev \in DOMAIN _devices
  /\ Cardinality(DOMAIN _devices) = 2
====
